---- MODULE Spec2Model ----
(***************************************************************************)
(* A model of the financial-news collector: the two crawlers               *)
(* (crawlers/naver_news.py, crawlers/yahoo_finance.py) and the collection  *)
(* pipeline of main.py (collect, remove_duplicates, sort_news_by_date,     *)
(* save_news_to_file).                                                     *)
(*                                                                         *)
(* Time is a wall clock counted in minutes (the precision of the           *)
(* canonical date string '%Y-%m-%d %H:%M'); seconds are not modelled.      *)
(* A day has DayLen minutes and a year DaysPerYear days.                   *)
(***************************************************************************)
EXTENDS Integers, Sequences, FiniteSets, TLC

VARIABLES
    now,          \* the wall clock, datetime.now()
    ticks,        \* how often the clock has advanced
    served,       \* number of listing rows / feed items the sites have served
    outage,       \* the sites are unreachable: every request fails
    creds,        \* NaverNewsCrawler.client_id and client_secret are both set
    op,           \* the crawler entry point that is running ("none": no call)
    pc,           \* position inside the running entry point
    page,         \* loop variable of `for page in range(1, max_pages + 1)`
    max_pages,    \* argument of the paginated crawls
    items,        \* rows of the current page that the item loop has not reached
    news_list,    \* local list the entry point accumulates
    cutoff_time,  \* local cutoff of the running entry point
    ret,          \* outcome of the last entry-point call
    trace,        \* what the running call did: requests, sleeps, item verdicts
    mpc,          \* position inside main() ("off": main is not running)
    local_news,   \* the local list of collect_yahoo_news / collect_naver_news
    all_news,     \* the list object main() collects into / the merge input
    unique_news,  \* the list object remove_duplicates builds
    sorted_news,  \* the list object sort_news_by_date returns
    saved,        \* the report file written by save_news_to_file
    idx,          \* loop position in YAHOO_TICKERS / search_queries
    calls         \* main(): one entry per crawler call it made

vars == <<now, ticks, served, outage, creds, op, pc, page, max_pages, items,
          news_list, cutoff_time, ret, trace, mpc, local_news, all_news,
          unique_news, sorted_news, saved, idx, calls>>

crawlVars == <<op, pc, page, max_pages, items, news_list, cutoff_time, ret, trace>>
mainVars  == <<mpc, local_news, all_news, unique_news, sorted_news, saved, idx, calls>>
envVars   == <<outage, creds>>

-----------------------------------------------------------------------------
(* Bounds of the model *)

DayLen      == 2   \* minutes in a day
DaysPerYear == 3   \* days in a year
MaxTicks    == 1   \* minutes that pass during one behaviour
MaxPages    == 2   \* the max_pages argument of a paginated crawl
MaxServed   == 2   \* rows / feed items the sites serve in one behaviour
SmallMaxResults == 1   \* a small max_results argument of search_news_api
MaxNews     == 3   \* longest input list of the merge functions

YearLen == DaysPerYear * DayLen

Min(a, b) == IF a < b THEN a ELSE b

-----------------------------------------------------------------------------
(* Dates.  A date text is [fmt, t]: the format it is written in and the     *)
(* instant it denotes at that format's precision.                           *)

CANON == "%Y-%m-%d %H:%M"

DateText(fmt, t) == [fmt |-> fmt, t |-> t]

YearOf(t)   == t \div YearLen
DayStart(t) == t - (t % DayLen)

\* datetime.strftime('%Y-%m-%d %H:%M')
Strftime(t) == DateText(CANON, t)

\* datetime.strptime(text, fmt): <<t>> when text is written in fmt, <<>> when
\* it raises ValueError.
Strptime(text, fmt) == IF text.fmt = fmt THEN <<text.t>> ELSE <<>>

\* TIME_WINDOW_HOURS = 24: the window is one day.
Window == DayLen

-----------------------------------------------------------------------------
(* Titles are sequences of characters. *)

WHITESPACE == {" ", "\t"}

LowerChar(c) ==
    CASE c = "F" -> "f"
      [] c = "E" -> "e"
      [] c = "D" -> "d"
      [] c = "R" -> "r"
      [] OTHER   -> c

\* str.lower()
Lower(s) == [i \in 1..Len(s) |-> LowerChar(s[i])]

RECURSIVE LStrip(_)
LStrip(s) == IF s # <<>> /\ Head(s) \in WHITESPACE THEN LStrip(Tail(s)) ELSE s

RECURSIVE RStrip(_)
RStrip(s) ==
    IF s # <<>> /\ s[Len(s)] \in WHITESPACE
    THEN RStrip(SubSeq(s, 1, Len(s) - 1))
    ELSE s

\* str.strip()
Strip(s) == RStrip(LStrip(s))

-----------------------------------------------------------------------------
(* main.py: remove_duplicates and sort_news_by_date *)

\* a variant that forgets strip()
TitleKeyNoStrip(news) == Lower(news.title)

\* title_key = news['title'].lower().strip()
TitleKey(news) == Strip(Lower(news.title))

RECURSIVE DedupLoop(_, _, _)
DedupLoop(rest, seen_titles, unique) ==
    IF rest = <<>> THEN unique
    ELSE LET news == Head(rest)
             title_key == TitleKey(news)
         IN  IF title_key \notin seen_titles
             THEN DedupLoop(Tail(rest), seen_titles \cup {title_key},
                            Append(unique, news))
             ELSE DedupLoop(Tail(rest), seen_titles, unique)

\* a variant that keeps every record
KeepAll(l) == l

remove_duplicates(l) == DedupLoop(l, {}, <<>>)

\* key=lambda x: datetime.strptime(x['date'], '%Y-%m-%d %H:%M')
SortKey(x) == Strptime(x.date, CANON)

\* a variant that puts x before the elements with its own key
RECURSIVE InsertDescUnstable(_, _)
InsertDescUnstable(x, done) ==
    IF done = <<>> THEN <<x>>
    ELSE IF SortKey(Head(done))[1] > SortKey(x)[1]
         THEN <<Head(done)>> \o InsertDescUnstable(x, Tail(done))
         ELSE <<x>> \o done

\* Insert x behind every element whose key is >= its own: the position a
\* stable descending sort gives an element that comes later in the input.
RECURSIVE InsertDesc(_, _)
InsertDesc(x, done) ==
    IF done = <<>> THEN <<x>>
    ELSE IF SortKey(Head(done))[1] >= SortKey(x)[1]
         THEN <<Head(done)>> \o InsertDesc(x, Tail(done))
         ELSE <<x>> \o done

RECURSIVE SortedDesc(_, _)
SortedDesc(rest, acc) ==
    IF rest = <<>> THEN acc
    ELSE SortedDesc(Tail(rest), InsertDesc(Head(rest), acc))

\* a variant that always leaves through the except branch
SortGivenUp(l) == l

\* sorted(news_list, key=..., reverse=True); when a key raises, the except
\* branch returns news_list as it is.
sort_news_by_date(l) ==
    IF \E i \in 1..Len(l) : SortKey(l[i]) = <<>>
    THEN l
    ELSE SortedDesc(l, <<>>)

\* The list object handed to remove_duplicates / sorted() after the call:
\* both build a new list and leave their argument alone.
ArgAfterDedup(l) == l

\* a variant that sorts in place, as list.sort() would
ArgAfterSortInPlace(l) == sort_news_by_date(l)

ArgAfterSorted(l) == l

-----------------------------------------------------------------------------
(* Records, responses and the log of a call *)

\* a variant of the record with a field that tells how the date was got
ArticleMarked(date, title, content, source, url) ==
    [date |-> date, title |-> title, content |-> content,
     source |-> source, url |-> url, parsed |-> TRUE]

Article(date, title, content, source, url) ==
    [date |-> date, title |-> title, content |-> content,
     source |-> source, url |-> url]

\* the report file: none, written with a report, or failed
NotSaved == [state |-> "none", report |-> <<>>]

Returned(l) == [kind |-> "return", value |-> l,    exc |-> ""]
Raised(e)   == [kind |-> "raise",  value |-> <<>>, exc |-> e]
NoOutcome   == [kind |-> "none",   value |-> <<>>, exc |-> ""]

\* Log entries
EvList(p, ok)    == [e |-> "list", page |-> p, ok |-> ok]
EvDetail(ok)     == [e |-> "detail", ok |-> ok]
EvApi(ok)        == [e |-> "api", ok |-> ok]
EvSleep          == [e |-> "sleep"]
EvSkip           == [e |-> "skip"]
\* the item's date was normalised: raw is <<text>> or <<>> (no date element),
\* t the normalised timestamp, at the clock when it was normalised
EvDate(raw, t, at) == [e |-> "date", raw |-> raw, t |-> t, at |-> at]
\* the item's date could not be used and the item was passed over
EvNoDate(raw)    == [e |-> "nodate", raw |-> raw]
EvAppend(rec)    == [e |-> "append", rec |-> rec]

Fed      == <<"F", "e", "d">>
NoTitle  == <<"N", "o", " ", "T", "i", "t", "l", "e">>

\* What the sites answer.  A date text the sites write:
MD   == "%m.%d"               \* listing marker; t is the day of the year
YMDHM == "%Y.%m.%d %H:%M"     \* article page
YMDHMS == "%Y.%m.%d %H:%M:%S" \* article page, other template
RFC822 == "%a, %d %b %Y %H:%M:%S %z"
BAD  == "unparsable"

BadText == DateText(BAD, 0)

\* the clock when a behaviour starts: new year's midnight, or the second
\* minute of the second day
StartTimes == {YearLen, YearLen + DayLen + 1}

\* instants the sites date their articles with
PubTimes == {YearLen - 1, YearLen + 1, YearLen + 3}

\* rows of the finance listing: dd.articleSubject with its <a> and the
\* <dt> before it
FinanceRow(link, href, title, dt) ==
    [link |-> link, href |-> href, title |-> title, dt |-> dt]

FinanceRows ==
    {FinanceRow(FALSE, "", <<>>, <<>>), FinanceRow(TRUE, "", Fed, <<>>)}
    \cup {FinanceRow(TRUE, "/a", Fed, <<DateText(MD, d)>>) : d \in {0, 1, DaysPerYear - 1}}
    \cup {FinanceRow(TRUE, "/a", Fed, <<BadText>>),
          FinanceRow(TRUE, "/a", Fed, <<>>),
          FinanceRow(TRUE, "/a", <<>>, <<DateText(MD, 1)>>)}

\* rows of the stock table: a header row, a row without a.tit, a row whose
\* a.tit has no href, a news row
StockRow(th, tit, href) == [th |-> th, tit |-> tit, href |-> href]

StockRows ==
    {StockRow(TRUE, FALSE, ""), StockRow(FALSE, FALSE, ""),
     StockRow(FALSE, TRUE, ""), StockRow(FALSE, TRUE, "/a")}

\* an article page: the title element (<<>>: none), the date element
\* (<<>>: none) and the text of the content container
DetailPage(title, date, content) ==
    [ok |-> TRUE, title |-> title, date |-> date, content |-> content]

DetailFailed == [ok |-> FALSE, title |-> <<>>, date |-> <<>>, content |-> ""]

DetailPages ==
    {DetailPage(<<Fed>>, <<DateText(YMDHM, t)>>, "text") : t \in PubTimes}
    \cup {DetailPage(<<Fed>>, <<DateText(YMDHMS, YearLen + 1)>>, "text"),
          DetailPage(<<Fed>>, <<BadText>>, "text"),
          DetailPage(<<Fed>>, <<>>, "text"),
          DetailPage(<<>>, <<DateText(YMDHM, YearLen + 3)>>, "")}

\* an item of the search API's answer
ApiItem(title, description, link, pubDate) ==
    [title |-> title, description |-> description, link |-> link,
     pubDate |-> pubDate]

\* a pubDate: t is the time of day it spells, off the UTC offset it ends
\* with, in minutes of the model's clock
RfcText(t, off) == [fmt |-> RFC822, t |-> t, off |-> off]

\* the instant a pubDate denotes, on the clock of offset 0
Instant(text) == text.t - text.off

ApiItems ==
    {ApiItem(Fed, "text", "/n", <<RfcText(t, 0)>>) : t \in PubTimes}
    \cup {ApiItem(<<"<", "b", ">", "F", "e", "d", "<", "/", "b", ">">>, "text", "/n",
                  <<RfcText(YearLen + 2, 1)>>),
          ApiItem(Fed, "text", "/n", <<BadText>>),
          ApiItem(Fed, "text", "/n", <<>>)}

\* every sequence over S of length at most n
RECURSIVE SeqsUpTo(_, _)
SeqsUpTo(S, n) ==
    IF n = 0 THEN {<<>>}
    ELSE LET shorter == SeqsUpTo(S, n - 1)
         IN  shorter \cup {Append(s, x) : s \in {q \in shorter : Len(q) = n - 1}, x \in S}

-----------------------------------------------------------------------------
(* crawlers/naver_news.py: pure parts *)

NAVER        == "Naver Finance"
NAVER_STOCK  == "Naver Finance - Stock 005930"
NAVER_API    == "Naver News API"
NAVER_URL    == "https://finance.naver.com"

\* main.py line 104 (transliterated) and config.py line 22
SearchQueries == <<"jusik sijang", "jeunggwon", "gyeongje", "geumyung">>
YahooTickers  == <<"AAPL", "TSLA", "NVDA", "MSFT", "GOOGL">>

\* a variant that takes no item for old
OlderThanCutoffNever(article_date, cutoff) == FALSE

\* article_date < cutoff_time (lines 96, 191), pub_date < cutoff_time
\* (line 331)
OlderThanCutoff(article_date, cutoff) == article_date < cutoff

\* f'https://finance.naver.com{href}'
ArticleUrl(href) == <<NAVER_URL, href>>

\* date_text.split()[0]: the first blank-separated word of a date text
Split0(text) ==
    IF text.fmt \in {YMDHM, YMDHMS} THEN <<DateText("%Y.%m.%d", DayStart(text.t))>>
    ELSE <<text>>

\* a variant that reads the marker in the year before
WithYearBefore(year, text) ==
    IF text.fmt = MD
    THEN DateText("%Y.%m.%d", (year - 1) * YearLen + text.t * DayLen)
    ELSE BadText

\* f"{now.year}.{dt_text}" read with "%Y.%m.%d"
WithYear(year, text) ==
    IF text.fmt = MD
    THEN DateText("%Y.%m.%d", year * YearLen + text.t * DayLen)
    ELSE BadText

\* a variant whose fall-back is the epoch instead of the current time
FinanceDateStrEpoch(dt, t) ==
    IF dt = <<>> THEN Strftime(0)
    ELSE LET date_obj == Strptime(WithYear(YearOf(t), dt[1]), "%Y.%m.%d")
         IN  IF date_obj # <<>> THEN Strftime(date_obj[1]) ELSE Strftime(0)

\* get_finance_news, lines 76-91: the date string of a listing row whose
\* preceding <dt> is dt (<<>>: no <dt>), read at clock t.
FinanceDateStr(dt, t) ==
    IF dt = <<>> THEN Strftime(t)
    ELSE LET date_obj == Strptime(WithYear(YearOf(t), dt[1]), "%Y.%m.%d")
         IN  IF date_obj # <<>> THEN Strftime(date_obj[1]) ELSE Strftime(t)

\* a variant without the fall-back to the current time
DetailDateStrEpoch(date, t) ==
    IF date # <<>> /\ Strptime(date[1], YMDHM) # <<>>
    THEN Strftime(Strptime(date[1], YMDHM)[1])
    ELSE Strftime(0)

\* _get_article_details, lines 233-251: the date string of an article page
DetailDateStr(date, t) ==
    IF date = <<>> THEN Strftime(t)
    ELSE LET first == Strptime(date[1], YMDHM)
             word  == Split0(date[1])
             second == IF word = <<>> THEN <<>> ELSE Strptime(word[1], "%Y.%m.%d")
         IN  IF first # <<>> THEN Strftime(first[1])
             ELSE IF second # <<>> THEN Strftime(second[1])
             ELSE Strftime(t)

\* _get_article_details: <<>> is the empty dict of the except branch
_get_article_details(url, resp, t) ==
    IF ~resp.ok THEN <<>>
    ELSE <<Article(DetailDateStr(resp.date, t),
                   IF resp.title # <<>> THEN Strip(resp.title[1]) ELSE NoTitle,
                   resp.content, NAVER, url)>>

\* a variant that writes a placeholder when there is no article page
ContentOrPlaceholder(article_data) ==
    IF article_data # <<>> THEN article_data[1].content ELSE "n/a"

\* get_finance_news line 104:
\* article_data.get('content', '') if article_data else ''
ContentOf(article_data) ==
    IF article_data # <<>> THEN article_data[1].content ELSE ""

\* re.sub(r'<[^>]+>', '', s): drop every <...> with at least one character
\* between the brackets
RECURSIVE CloseAt(_, _)
CloseAt(s, i) ==
    IF i > Len(s) THEN 0 ELSE IF s[i] = ">" THEN i ELSE CloseAt(s, i + 1)

RECURSIVE StripTags(_)
StripTags(s) ==
    IF s = <<>> THEN <<>>
    ELSE LET close == IF Head(s) = "<" /\ Len(s) >= 2 /\ s[2] # ">"
                      THEN CloseAt(s, 3) ELSE 0
         IN  IF close > 0
             THEN StripTags(SubSeq(s, close + 1, Len(s)))
             ELSE <<Head(s)>> \o StripTags(Tail(s))

\* search_news_api, lines 321-348: the loop over data['items'].  Returns the
\* list and the log of the loop.
RECURSIVE ApiLoop(_, _, _, _, _)
ApiLoop(rest, query, cutoff, t, acc) ==
    IF rest = <<>> THEN acc
    ELSE LET item == Head(rest)
             pub_date == IF item.pubDate = <<>> THEN <<>>
                         ELSE Strptime(item.pubDate[1], RFC822)
             rec == Article(Strftime(pub_date[1]), StripTags(item.title),
                            item.description, <<NAVER_API, query>>, item.link)
         IN  IF pub_date = <<>>
             THEN ApiLoop(Tail(rest), query, cutoff, t,
                          [acc EXCEPT !.log = Append(@, EvNoDate(item.pubDate))])
             ELSE IF OlderThanCutoff(pub_date[1], cutoff)
             THEN ApiLoop(Tail(rest), query, cutoff, t,
                          [acc EXCEPT !.log = Append(@, EvDate(item.pubDate, pub_date[1], t))])
             ELSE ApiLoop(Tail(rest), query, cutoff, t,
                          [news |-> Append(acc.news, rec),
                           log  |-> acc.log \o <<EvDate(item.pubDate, pub_date[1], t),
                                                 EvAppend(rec)>>])

-----------------------------------------------------------------------------
(* The environment *)

\* The clock is seen to advance while the answer of the search API is
\* awaited and, in main(), between the calls; a paginated crawl is taken to
\* run within one minute of the clock.  A crawler called on its own starts
\* at one of StartTimes.
Running ==
    IF mpc = "off"
    THEN pc = "request"
    ELSE /\ pc \in {"idle", "request"}
         /\ mpc \notin {"process", "dedup", "sort", "save", "end", "step2"}

Tick ==
    /\ Running
    /\ ticks < MaxTicks
    /\ now' = now + 1
    /\ ticks' = ticks + 1
    /\ UNCHANGED <<served, envVars, crawlVars, mainVars>>

\* whether a request gets an answer
Answers == IF outage THEN {FALSE} ELSE BOOLEAN

\* the pages a listing can answer with: at most the rows left to serve
PagesOf(rows) == SeqsUpTo(rows, MaxServed - served)

-----------------------------------------------------------------------------
(* NaverNewsCrawler.get_finance_news *)

\* a variant that takes the cutoff from the clock at the start of main()
BeginFinanceFrozen(mp) ==
    /\ op' = "get_finance_news"
    /\ max_pages' = mp
    /\ news_list' = <<>>
    /\ cutoff_time' = <<calls[1].at - Window>>
    /\ page' = 1
    /\ items' = <<>>
    /\ pc' = "page"
    /\ ret' = NoOutcome
    /\ trace' = <<>>

\* lines 45-46, and the first turn of the page loop
BeginFinance(mp) ==
    /\ op' = "get_finance_news"
    /\ max_pages' = mp
    /\ news_list' = <<>>
    /\ cutoff_time' = <<now - Window>>
    /\ page' = 1
    /\ items' = <<>>
    /\ pc' = "page"
    /\ ret' = NoOutcome
    /\ trace' = <<>>

\* a variant that passes over the old row and goes on with the next one
OnStaleContinue(ev) ==
    /\ items' = Tail(items)
    /\ trace' = trace \o ev
    /\ UNCHANGED <<news_list, pc, ret, served>>

\* what the item loop does when it meets a row older than the cutoff
\* (line 98, line 193): the call returns news_list
OnStale(ev) ==
    /\ pc' = "done"
    /\ ret' = Returned(news_list)
    /\ items' = Tail(items)
    /\ trace' = trace \o ev
    /\ UNCHANGED <<news_list, served>>

\* a variant that gives up what was collected
OnListingFailureEmpty ==
    /\ pc' = "done"
    /\ ret' = Returned(<<>>)
    /\ trace' = Append(trace, EvList(page, FALSE))
    /\ UNCHANGED <<items, served>>

\* a failed listing request lands in the outer except (lines 125-127,
\* 209-211), which returns news_list
OnListingFailure ==
    /\ pc' = "done"
    /\ ret' = Returned(news_list)
    /\ trace' = Append(trace, EvList(page, FALSE))
    /\ UNCHANGED <<items, served>>

\* a variant in which a row that cannot be read ends the call with []
SkipItemAbort ==
    /\ items' = Tail(items)
    /\ trace' = Append(trace, EvSkip)
    /\ pc' = "done"
    /\ ret' = Returned(<<>>)
    /\ UNCHANGED <<news_list, served>>

\* `continue` on a row that cannot be read (lines 66, 72, 118; 164, 169,
\* 175, 202): the item loop goes on with the next row
SkipItem ==
    /\ items' = Tail(items)
    /\ trace' = Append(trace, EvSkip)
    /\ UNCHANGED <<news_list, pc, ret, served>>

\* lines 50-59: the listing request of one page
FinanceFetchPage ==
    /\ op = "get_finance_news" /\ pc = "page"
    /\ \E ok \in Answers :
         IF ok
         THEN \E rows \in PagesOf(FinanceRows) :
                /\ items' = rows
                /\ served' = served + Len(rows)
                /\ pc' = "items"
                /\ trace' = Append(trace, EvList(page, TRUE))
                /\ UNCHANGED ret
         ELSE OnListingFailure
    /\ UNCHANGED <<now, ticks, envVars, op, page, max_pages, news_list, cutoff_time, mainVars>>

\* lines 61-118: one turn of the item loop
FinanceItem ==
    /\ op = "get_finance_news" /\ pc = "items" /\ items # <<>>
    /\ LET item == Head(items)
           article_url == ArticleUrl(item.href)
           date_str == FinanceDateStr(item.dt, now)
           article_date == Strptime(date_str, CANON)
           dated == EvDate(item.dt, article_date[1], now)
       IN  IF ~item.link \/ item.href = ""
           THEN SkipItem
           ELSE IF article_date # <<>> /\ OlderThanCutoff(article_date[1], cutoff_time[1])
           THEN OnStale(<<dated>>)
           ELSE \E resp \in {r \in DetailPages \cup {DetailFailed} : r.ok \in Answers} :
                  LET article_data == _get_article_details(article_url, resp, now)
                      content == ContentOf(article_data)
                      rec == Article(date_str, item.title, content, NAVER, article_url)
                  IN  /\ news_list' = Append(news_list, rec)
                      /\ items' = Tail(items)
                      /\ trace' = trace \o <<dated, EvDetail(resp.ok), EvAppend(rec), EvSleep>>
                      /\ UNCHANGED <<pc, ret, served>>
    /\ UNCHANGED <<now, ticks, envVars, op, page, max_pages, cutoff_time, mainVars>>

\* a variant whose page loop makes one turn more than max_pages
EndPageOneMore(o) ==
    /\ op = o /\ pc = "items" /\ items = <<>>
    /\ trace' = Append(trace, EvSleep)
    /\ IF page < max_pages + 1
       THEN /\ page' = page + 1
            /\ pc' = "page"
            /\ UNCHANGED ret
       ELSE /\ pc' = "done"
            /\ ret' = Returned(news_list)
            /\ UNCHANGED page
    /\ UNCHANGED <<now, ticks, served, envVars, op, max_pages, items, news_list, cutoff_time, mainVars>>

\* lines 120-123: the delay between pages, the next page or the return
EndPage(o) ==
    /\ op = o /\ pc = "items" /\ items = <<>>
    /\ trace' = Append(trace, EvSleep)
    /\ IF page < max_pages
       THEN /\ page' = page + 1
            /\ pc' = "page"
            /\ UNCHANGED ret
       ELSE /\ pc' = "done"
            /\ ret' = Returned(news_list)
            /\ UNCHANGED page
    /\ UNCHANGED <<now, ticks, served, envVars, op, max_pages, items, news_list, cutoff_time, mainVars>>

FinanceEndPage == EndPage("get_finance_news")

-----------------------------------------------------------------------------
(* NaverNewsCrawler.get_stock_news *)

\* lines 140-141
BeginStock(mp) ==
    /\ op' = "get_stock_news"
    /\ max_pages' = mp
    /\ news_list' = <<>>
    /\ cutoff_time' = <<now - Window>>
    /\ page' = 1
    /\ items' = <<>>
    /\ pc' = "page"
    /\ ret' = NoOutcome
    /\ trace' = <<>>

\* lines 145-158: the listing request; without the table the page loop is
\* left (break) and news_list returned
StockFetchPage ==
    /\ op = "get_stock_news" /\ pc = "page"
    /\ \E ok \in Answers :
         IF ok
         THEN \E news_table \in BOOLEAN :
                IF news_table
                THEN \E rows \in PagesOf(StockRows) :
                       /\ items' = rows
                       /\ served' = served + Len(rows)
                       /\ pc' = "items"
                       /\ trace' = Append(trace, EvList(page, TRUE))
                       /\ UNCHANGED ret
                ELSE /\ pc' = "done"
                     /\ ret' = Returned(news_list)
                     /\ trace' = Append(trace, EvList(page, TRUE))
                     /\ UNCHANGED <<items, served>>
         ELSE OnListingFailure
    /\ UNCHANGED <<now, ticks, envVars, op, page, max_pages, news_list, cutoff_time, mainVars>>

\* what the stock item loop does after an article page could not be
\* fetched (lines 182-183): continue
AfterNoDetail == <<EvDetail(FALSE)>>

\* lines 160-202: one turn of the item loop
StockItem ==
    /\ op = "get_stock_news" /\ pc = "items" /\ items # <<>>
    /\ LET item == Head(items)
           article_url == ArticleUrl(item.href)
       IN  IF item.th \/ ~item.tit \/ item.href = ""
           THEN SkipItem
           ELSE \E resp \in {r \in DetailPages \cup {DetailFailed} : r.ok \in Answers} :
                  LET got == _get_article_details(article_url, resp, now)
                      article_data == [got[1] EXCEPT !.source = NAVER_STOCK]
                      article_date == Strptime(article_data.date, CANON)
                      dated == EvDate(resp.date, article_date[1], now)
                  IN  IF got = <<>>
                      THEN /\ items' = Tail(items)
                           /\ trace' = trace \o AfterNoDetail
                           /\ UNCHANGED <<news_list, pc, ret, served>>
                      ELSE IF article_date = <<>>
                      THEN /\ items' = Tail(items)
                           /\ trace' = trace \o <<EvDetail(TRUE), EvNoDate(resp.date)>>
                           /\ UNCHANGED <<news_list, pc, ret, served>>
                      ELSE IF OlderThanCutoff(article_date[1], cutoff_time[1])
                      THEN OnStale(<<EvDetail(TRUE), dated>>)
                      ELSE /\ news_list' = Append(news_list, article_data)
                           /\ items' = Tail(items)
                           /\ trace' = trace \o <<EvDetail(TRUE), dated,
                                                  EvAppend(article_data), EvSleep>>
                           /\ UNCHANGED <<pc, ret, served>>
    /\ UNCHANGED <<now, ticks, envVars, op, page, max_pages, cutoff_time, mainVars>>

StockEndPage == EndPage("get_stock_news")

-----------------------------------------------------------------------------
(* NaverNewsCrawler.search_news_api *)

\* line 285: max_results: int = 100
DefaultMaxResults == 100

\* line 309: 'display': min(max_results, 100), the size asked of the server
ApiDisplayMax == 100
Display(max_results) == Min(max_results, ApiDisplayMax)

\* lines 296-298: without credentials the call returns [] at once.  The
\* size argument of the call, max_results, is kept where the paginated
\* crawls keep theirs (max_pages).
BeginApi(query, max_results) ==
    /\ op' = "search_news_api"
    /\ max_pages' = max_results
    /\ news_list' = <<>>
    /\ cutoff_time' = <<>>
    /\ page' = query
    /\ items' = <<>>
    /\ trace' = <<>>
    /\ IF creds
       THEN pc' = "request" /\ ret' = NoOutcome
       ELSE pc' = "done" /\ ret' = Returned(<<>>)

\* lines 300-355: the request, the loop over the items, the return; every
\* failure lands in the outer except, which returns []
ApiFetch ==
    /\ op = "search_news_api" /\ pc = "request"
    /\ \E ok \in Answers :
         IF ok
         THEN \E data \in PagesOf(ApiItems) :
                LET cutoff == now - Window
                    out == ApiLoop(data, SearchQueries[page], cutoff, now, [news |-> <<>>, log |-> <<>>])
                IN  /\ served' = served + Len(data)
                    /\ cutoff_time' = <<cutoff>>
                    /\ news_list' = out.news
                    /\ trace' = <<EvApi(TRUE)>> \o out.log
                    /\ ret' = Returned(out.news)
         ELSE /\ ret' = Returned(<<>>)
              /\ trace' = Append(trace, EvApi(FALSE))
              /\ UNCHANGED <<served, cutoff_time, news_list>>
    /\ pc' = "done"
    /\ UNCHANGED <<now, ticks, envVars, op, page, max_pages, items, mainVars>>

-----------------------------------------------------------------------------
(* YahooFinanceCrawler.get_market_news, get_news_for_ticker *)

\* crawlers/yahoo_finance.py imports no logging and binds no name `logger`
YahooLoggerBound == FALSE

\* lines 38-43 and 101-103 (155-160 and 213-215): the first statement of
\* the try block that uses `logger` raises NameError, the except branch
\* uses `logger` again, and that NameError leaves the call.
BeginYahoo(o) ==
    /\ ~YahooLoggerBound
    /\ op' = o
    /\ max_pages' = 0
    /\ news_list' = <<>>
    /\ cutoff_time' = <<>>
    /\ page' = 0
    /\ items' = <<>>
    /\ trace' = <<>>
    /\ pc' = "done"
    /\ ret' = Raised("NameError")

-----------------------------------------------------------------------------
(* A crawler called on its own *)

Idle == mpc = "off" /\ pc = "idle"

CallFinance ==
    /\ Idle
    /\ BeginFinance(MaxPages)
    /\ UNCHANGED <<now, ticks, served, envVars, mainVars>>

CallStock ==
    /\ Idle
    /\ BeginStock(MaxPages)
    /\ UNCHANGED <<now, ticks, served, envVars, mainVars>>

CallApi ==
    /\ Idle
    /\ \E max_results \in {SmallMaxResults, DefaultMaxResults} : BeginApi(1, max_results)
    /\ UNCHANGED <<now, ticks, served, envVars, mainVars>>

CallYahoo ==
    /\ Idle
    /\ \E o \in {"get_market_news", "get_news_for_ticker"} : BeginYahoo(o)
    /\ UNCHANGED <<now, ticks, served, envVars, mainVars>>

InitCrawler ==
    /\ now \in StartTimes
    /\ ticks = 0
    /\ served = 0
    /\ outage \in BOOLEAN
    /\ creds \in BOOLEAN
    /\ op = "none" /\ pc = "idle"
    /\ page = 0 /\ max_pages = 0
    /\ items = <<>> /\ news_list = <<>>
    /\ cutoff_time = <<>>
    /\ ret = NoOutcome
    /\ trace = <<>>

Init ==
    /\ InitCrawler
    /\ mpc = "off"
    /\ local_news = <<>> /\ all_news = <<>>
    /\ unique_news = <<>> /\ sorted_news = <<>>
    /\ saved = NotSaved
    /\ idx = 0
    /\ calls = <<>>

Next ==
    \/ Tick
    \/ CallFinance \/ FinanceFetchPage \/ FinanceItem \/ FinanceEndPage
    \/ CallStock \/ StockFetchPage \/ StockItem \/ StockEndPage
    \/ CallApi \/ ApiFetch
    \/ CallYahoo

Spec == Init /\ [][Next]_vars

\* A call that has started is carried on: its statements run one after the
\* other, every request has timeout=10 and so comes back or fails, and
\* every time.sleep ends.
CrawlStep ==
    \/ FinanceFetchPage \/ FinanceItem \/ FinanceEndPage
    \/ StockFetchPage \/ StockItem \/ StockEndPage
    \/ ApiFetch

SpecLive == Spec /\ WF_vars(CrawlStep)

-----------------------------------------------------------------------------
(* main.py: main(), collect_yahoo_news, collect_naver_news *)

\* collect_naver_news, line 98
MainMaxPages == 5

\* collect_naver_news, line 106
MainMaxResults == 50

InitMain ==
    /\ InitCrawler
    /\ mpc = "start"
    /\ local_news = <<>> /\ all_news = <<>>
    /\ unique_news = <<>> /\ sorted_news = <<>>
    /\ saved = NotSaved
    /\ idx = 0
    /\ calls = <<>>

CallEntry(o) == [op |-> o, at |-> now, cutoff |-> <<>>, done |-> now, ret |-> NoOutcome]

\* the entry of the call that has just come back
Closed(entry) == [entry EXCEPT !.cutoff = cutoff_time, !.done = now, !.ret = ret]

CloseCall == [calls EXCEPT ![Len(calls)] = Closed(@)]

\* the crawler is free again
CrawlerIdle ==
    /\ op' = "none" /\ pc' = "idle"
    /\ UNCHANGED <<page, max_pages, items, news_list, cutoff_time, ret, trace>>

\* lines 163-181: the crawlers are built, all_news = []
MainStart ==
    /\ mpc = "start"
    /\ mpc' = "yahoo"
    /\ all_news' = <<>>
    /\ calls' = <<CallEntry("main")>>
    /\ UNCHANGED <<now, ticks, served, envVars, crawlVars, local_news,
                   unique_news, sorted_news, saved, idx>>

\* collect_yahoo_news lines 67-77: get_market_news, then one
\* get_news_for_ticker per ticker
MainCallYahoo ==
    /\ mpc = "yahoo" /\ pc = "idle"
    /\ BeginYahoo(IF idx = 0 THEN "get_market_news" ELSE "get_news_for_ticker")
    /\ local_news' = IF idx = 0 THEN <<>> ELSE local_news
    /\ calls' = Append(calls, CallEntry(IF idx = 0 THEN "get_market_news"
                                        ELSE "get_news_for_ticker"))
    /\ UNCHANGED <<now, ticks, served, envVars, mpc, all_news, unique_news,
                   sorted_news, saved, idx>>

\* a variant that puts the new records in front
ExtendFront(acc, more) == more \o acc

\* list.extend (main.py lines 72, 78, 99, 107, 186, 193)
Extend(acc, more) == acc \o more

\* a variant of main() without the try around a collection step: the
\* exception ends main()
OnCollectRaiseAbort(next) ==
    /\ mpc' = "end"
    /\ UNCHANGED <<local_news, all_news, idx>>

\* main() lines 187-188, 194-195: an exception of a collection step is
\* logged and main() goes on with what follows the try
OnCollectRaise(next) ==
    /\ mpc' = next
    /\ UNCHANGED <<local_news, all_news>>
    /\ idx' = 0

\* the call made by collect_yahoo_news comes back
MainYahooReturn ==
    /\ mpc = "yahoo" /\ pc = "done"
    /\ calls' = CloseCall
    /\ CrawlerIdle
    /\ IF ret.kind = "raise"
       THEN OnCollectRaise("naver")
       ELSE IF idx < Len(YahooTickers)
       THEN /\ local_news' = Extend(local_news, ret.value)
            /\ idx' = idx + 1
            /\ UNCHANGED <<mpc, all_news>>
       ELSE /\ local_news' = Extend(local_news, ret.value)
            /\ all_news' = Extend(all_news, Extend(local_news, ret.value))
            /\ idx' = 0
            /\ mpc' = "naver"
    /\ UNCHANGED <<now, ticks, served, envVars, unique_news, sorted_news, saved>>

\* collect_naver_news lines 94-98
MainCallFinance ==
    /\ mpc = "naver" /\ pc = "idle"
    /\ BeginFinance(MainMaxPages)
    /\ local_news' = <<>>
    /\ mpc' = "naver_finance"
    /\ calls' = Append(calls, CallEntry("get_finance_news"))
    /\ UNCHANGED <<now, ticks, served, envVars, all_news, unique_news,
                   sorted_news, saved, idx>>

\* collect_naver_news lines 99-110 after get_finance_news has come back
MainFinanceReturn ==
    /\ mpc = "naver_finance" /\ pc = "done"
    /\ calls' = CloseCall
    /\ CrawlerIdle
    /\ IF ret.kind = "raise"
       THEN OnCollectRaise("process")
       ELSE IF creds
       THEN /\ local_news' = Extend(local_news, ret.value)
            /\ idx' = 1
            /\ mpc' = "naver_api"
            /\ UNCHANGED all_news
       ELSE /\ local_news' = Extend(local_news, ret.value)
            /\ all_news' = Extend(all_news, Extend(local_news, ret.value))
            /\ mpc' = "process"
            /\ UNCHANGED idx
    /\ UNCHANGED <<now, ticks, served, envVars, unique_news, sorted_news, saved>>

\* collect_naver_news lines 105-106
MainCallApi ==
    /\ mpc = "naver_api" /\ pc = "idle"
    /\ BeginApi(idx, MainMaxResults)
    /\ calls' = Append(calls, CallEntry("search_news_api"))
    /\ UNCHANGED <<now, ticks, served, envVars, mpc, local_news, all_news,
                   unique_news, sorted_news, saved, idx>>

\* collect_naver_news lines 107-110, main() line 193
MainApiReturn ==
    /\ mpc = "naver_api" /\ pc = "done"
    /\ calls' = CloseCall
    /\ CrawlerIdle
    /\ IF ret.kind = "raise"
       THEN OnCollectRaise("process")
       ELSE IF idx < Len(SearchQueries)
       THEN /\ local_news' = Extend(local_news, ret.value)
            /\ idx' = idx + 1
            /\ UNCHANGED <<mpc, all_news>>
       ELSE /\ local_news' = Extend(local_news, ret.value)
            /\ all_news' = Extend(all_news, Extend(local_news, ret.value))
            /\ idx' = 0
            /\ mpc' = "process"
    /\ UNCHANGED <<now, ticks, served, envVars, unique_news, sorted_news, saved>>

\* main() lines 198-202
MainProcess ==
    /\ mpc = "process"
    /\ mpc' = IF all_news = <<>> THEN "end" ELSE "dedup"
    /\ UNCHANGED <<now, ticks, served, envVars, crawlVars, local_news, all_news,
                   unique_news, sorted_news, saved, idx, calls>>

\* main() line 205
RemoveDuplicates ==
    /\ mpc = "dedup"
    /\ unique_news' = remove_duplicates(all_news)
    /\ all_news' = ArgAfterDedup(all_news)
    /\ mpc' = "sort"
    /\ UNCHANGED <<now, ticks, served, envVars, crawlVars, local_news,
                   sorted_news, saved, idx, calls>>

\* main() line 208
SortNews ==
    /\ mpc = "sort"
    /\ sorted_news' = sort_news_by_date(unique_news)
    /\ unique_news' = ArgAfterSorted(unique_news)
    /\ mpc' = "save"
    /\ UNCHANGED <<now, ticks, served, envVars, crawlVars, local_news, all_news,
                   saved, idx, calls>>

\* main() lines 211-223 and save_news_to_file: the file is written, or an
\* I/O error is caught and None returned
SaveNews ==
    /\ mpc = "save"
    /\ \E io \in BOOLEAN :
         saved' = IF io THEN [state |-> "written", report |-> sorted_news]
                  ELSE [state |-> "failed", report |-> <<>>]
    /\ mpc' = "end"
    /\ UNCHANGED <<now, ticks, served, envVars, crawlVars, local_news, all_news,
                   unique_news, sorted_news, idx, calls>>

\* run_pipeline.py lines 27-41: collector.main() has come back without an
\* exception (sys.exit(1) is in the except branch only) and the pipeline
\* goes on to its second step
PipelineStep2 ==
    /\ mpc = "end"
    /\ mpc' = "step2"
    /\ UNCHANGED <<now, ticks, served, envVars, crawlVars, local_news, all_news,
                   unique_news, sorted_news, saved, idx, calls>>

NextMain ==
    \/ Tick
    \/ MainStart
    \/ MainCallYahoo \/ MainYahooReturn
    \/ MainCallFinance \/ FinanceFetchPage \/ FinanceItem \/ FinanceEndPage
    \/ MainFinanceReturn
    \/ MainCallApi \/ ApiFetch \/ MainApiReturn
    \/ MainProcess \/ RemoveDuplicates \/ SortNews \/ SaveNews
    \/ PipelineStep2

SpecMain == InitMain /\ [][NextMain]_vars

-----------------------------------------------------------------------------
(* The merge functions on their own *)

FedSp == <<"f", "e", "d", " ">>
Rates == <<"R", "a", "t", "e", "s">>
Oil   == <<"o", "i", "l">>

MergeRecords ==
    {Article(Strftime(t), title, "text", source, ArticleUrl("/a")) :
        t \in PubTimes, title \in {Fed, FedSp, Rates, Oil},
        source \in {NAVER, "Yahoo Finance - Market"}}

InitMerge ==
    /\ now = YearLen /\ ticks = 0
    /\ served = 0
    /\ outage = FALSE /\ creds = FALSE
    /\ op = "none" /\ pc = "idle"
    /\ page = 0 /\ max_pages = 0
    /\ items = <<>> /\ news_list = <<>>
    /\ cutoff_time = <<>>
    /\ ret = NoOutcome
    /\ trace = <<>>
    /\ mpc = "dedup"
    /\ local_news = <<>>
    /\ all_news \in SeqsUpTo(MergeRecords, MaxNews)
    /\ unique_news = <<>> /\ sorted_news = <<>>
    /\ saved = NotSaved
    /\ idx = 0
    /\ calls = <<>>

NextMerge == RemoveDuplicates \/ SortNews

SpecMerge == InitMerge /\ [][NextMerge]_vars

-----------------------------------------------------------------------------
(* main() from the end of the collection on, after three searches that     *)
(* were answered with two items each                                       *)

Gold == <<"g", "o", "l", "d">>
Won  == <<"w", "o", "n">>
Tax  == <<"t", "a", "x">>
Yen  == <<"y", "e", "n">>

\* the titles of the six items when no two of them are alike
SixTitles == <<Rates, Oil, Gold, Won, Tax, Yen>>

\* the query that was answered with the p-th of the six items
QueryOf(p) == (p + 1) \div 2

\* six items: those at a and b carry one title, written in two ways, and
\* when[p] is the time the p-th item is dated with
SixItems(a, b, when) ==
    [p \in 1..6 |->
        ApiItem(IF p = a THEN Fed ELSE IF p = b THEN FedSp ELSE SixTitles[p],
                "text", "/n", <<RfcText(when[p], 0)>>)]

\* what search_news_api returns for an answer, at clock t
ApiResult(data, query, t) ==
    ApiLoop(data, SearchQueries[query], t - Window, t, [news |-> <<>>, log |-> <<>>]).news

DoneEntry(o, t, cutoff, outcome) ==
    [op |-> o, at |-> t, cutoff |-> cutoff, done |-> t, ret |-> outcome]

\* The state of main() at line 198 when the Yahoo step raised,
\* get_finance_news returned nothing, the first three searches were
\* answered with two items each and the fourth with none; exactly one of
\* the six items is older than the window and exactly one title is carried
\* by two items, of different searches.  `items` keeps the six items.
InitEndToEnd ==
    /\ now = YearLen + DayLen + 1
    /\ ticks = 0
    /\ served = 0
    /\ outage = FALSE /\ creds = TRUE
    /\ op = "none" /\ pc = "idle"
    /\ page = Len(SearchQueries) /\ max_pages = MainMaxResults
    /\ news_list = <<>>
    /\ cutoff_time = <<now - Window>>
    /\ ret = Returned(<<>>)
    /\ trace = <<EvApi(TRUE)>>
    /\ \E a \in 1..6 : \E b \in 1..6 :
       \E when \in [1..6 -> PubTimes] :
         /\ QueryOf(a) # QueryOf(b)
         /\ Cardinality({p \in 1..6 : when[p] < now - Window}) = 1
         /\ items = SixItems(a, b, when)
    /\ local_news = ApiResult(SubSeq(items, 1, 2), 1, now)
                      \o ApiResult(SubSeq(items, 3, 4), 2, now)
                      \o ApiResult(SubSeq(items, 5, 6), 3, now)
    /\ all_news = local_news
    /\ calls = <<DoneEntry("main", now, <<>>, NoOutcome),
                 DoneEntry("get_market_news", now, <<>>, Raised("NameError")),
                 DoneEntry("get_finance_news", now, <<now - Window>>, Returned(<<>>)),
                 DoneEntry("search_news_api", now, <<now - Window>>,
                           Returned(ApiResult(SubSeq(items, 1, 2), 1, now))),
                 DoneEntry("search_news_api", now, <<now - Window>>,
                           Returned(ApiResult(SubSeq(items, 3, 4), 2, now))),
                 DoneEntry("search_news_api", now, <<now - Window>>,
                           Returned(ApiResult(SubSeq(items, 5, 6), 3, now))),
                 DoneEntry("search_news_api", now, <<now - Window>>, Returned(<<>>))>>
    /\ mpc = "process"
    /\ unique_news = <<>> /\ sorted_news = <<>>
    /\ saved = NotSaved
    /\ idx = 0

NextEndToEnd ==
    \/ MainProcess \/ RemoveDuplicates \/ SortNews \/ SaveNews
    \/ PipelineStep2

SpecEndToEnd == InitEndToEnd /\ [][NextEndToEnd]_vars

-----------------------------------------------------------------------------
(* Reading the log of a call *)

IsAppend(ev) == ev.e = "append"

\* the records a stretch of the log appended, in order
RecsOf(tr) ==
    LET sel == SelectSeq(tr, IsAppend)
    IN  [i \in 1..Len(sel) |-> sel[i].rec]

Paginated == op \in {"get_finance_news", "get_stock_news"}

\* the date formats each entry point reads
Accepted(o) ==
    CASE o = "get_finance_news" -> {MD}
      [] o = "get_stock_news"   -> {YMDHM, YMDHMS, "%Y.%m.%d"}
      [] OTHER                  -> {RFC822}

\* raw is a missing or unreadable date element
MalformedDate(o, raw) == raw = <<>> \/ raw[1].fmt \notin Accepted(o)

\* the item dated at position k of the log was appended with date d
EmittedWith(k, d) ==
    \E j \in (k + 1)..Len(trace) :
        /\ trace[j].e = "append"
        /\ trace[j].rec.date = d
        /\ \A m \in (k + 1)..(j - 1) : trace[m].e \notin {"date", "nodate", "skip"}

-----------------------------------------------------------------------------
(* C1: in a paginated crawl, the first item whose normalised date is       *)
(* strictly before the cutoff ends the call at once: the call returns      *)
(* exactly the records appended before that item, and nothing (no item,    *)
(* no request) comes after it.                                             *)
C1_StopAtCutoff ==
    Paginated =>
        \A k \in 1..Len(trace) :
            (trace[k].e = "date" /\ trace[k].t < cutoff_time[1]) =>
                /\ k = Len(trace)
                /\ pc = "done"
                /\ ret = Returned(RecsOf(SubSeq(trace, 1, k - 1)))
                /\ ret.value = news_list

\* a crawl that stopped on page 2, on an old item, with a record in hand
C1_Witness ==
    /\ op = "get_finance_news" /\ pc = "done"
    /\ page = 2
    /\ news_list # <<>>
    /\ trace[Len(trace)].e = "date"
    /\ trace[Len(trace)].t < cutoff_time[1]

(* C2: when the source is unreachable, an entry point returns the empty    *)
(* sequence and does not raise.                                            *)
C2_EmptyOnFailure ==
    (pc = "done" /\ outage) => (ret.kind = "return" /\ ret.value = <<>>)

(* C4: in a paginated crawl, a failed listing request for page p ends the  *)
(* call: it returns the records appended on pages 1..p-1, in order, issues *)
(* no further request and does not raise.                                  *)
C4_ListingFailure ==
    Paginated =>
        \A k \in 1..Len(trace) :
            (trace[k].e = "list" /\ ~trace[k].ok) =>
                /\ k = Len(trace)
                /\ pc = "done"
                /\ ret = Returned(RecsOf(SubSeq(trace, 1, k - 1)))
                /\ \A j \in 1..(k - 1) :
                       trace[j].e = "list" => trace[j].ok /\ trace[j].page < trace[k].page

\* page 2 failed after page 1 gave a record
C4_Witness ==
    /\ op = "get_stock_news" /\ pc = "done"
    /\ news_list # <<>>
    /\ trace[Len(trace)] = EvList(2, FALSE)

(* C8 as stated: in every crawler an item whose date is missing or         *)
(* malformed is emitted, stamped with the current time.                    *)
C8_NeverDropped ==
    \A k \in 1..Len(trace) :
        (trace[k].e \in {"date", "nodate"} /\ MalformedDate(op, trace[k].raw)) =>
            /\ trace[k].e = "date"
            /\ trace[k].t = trace[k].at
            /\ EmittedWith(k, Strftime(trace[k].at))

(* C8 amended: in the listing crawls (get_finance_news, get_stock_news) an *)
(* item whose date element is missing or malformed is stamped with the     *)
(* current time, which is not after the time at completion, and is emitted *)
(* with that date; in search_news_api an item whose pubDate is missing or  *)
(* malformed is passed over; neither raises.                               *)
C8_FallbackOrSkip ==
    /\ (Paginated \/ op = "search_news_api") => ret.kind # "raise"
    /\ \A k \in 1..Len(trace) :
        (trace[k].e \in {"date", "nodate"} /\ MalformedDate(op, trace[k].raw)) =>
            IF Paginated
            THEN /\ trace[k].e = "date"
                 /\ trace[k].t = trace[k].at
                 /\ trace[k].t <= now
                 /\ EmittedWith(k, Strftime(trace[k].at))
            ELSE /\ op = "search_news_api"
                 /\ trace[k].e = "nodate"
                 /\ k = Len(trace) \/ trace[k + 1].e # "append"
                 /\ pc = "done" /\ ret.kind = "return"

\* a stock crawl that appended an article whose page carries an unreadable
\* date
C8_Witness ==
    /\ op = "get_stock_news"
    /\ \E k \in 1..Len(trace) :
         /\ trace[k].e = "date"
         /\ trace[k].raw = <<BadText>>
         /\ EmittedWith(k, Strftime(now))

(* C10: between two consecutive article requests, and between two          *)
(* consecutive listing requests, of one crawl there is a delay.            *)
C10_DelayBetweenRequests ==
    \A i \in 1..Len(trace) : \A j \in (i + 1)..Len(trace) :
        (/\ trace[i].e \in {"detail", "list"}
         /\ trace[j].e = trace[i].e
         /\ \A m \in (i + 1)..(j - 1) : trace[m].e # trace[i].e)
        => \E m \in (i + 1)..(j - 1) : trace[m].e = "sleep"

-----------------------------------------------------------------------------
(* Reading the calls of main() *)

YahooOps == {"get_market_news", "get_news_for_ticker"}
NaverOps == {"get_finance_news", "get_stock_news", "search_news_api"}

StepRaised(ops) ==
    \E i \in 1..Len(calls) : calls[i].op \in ops /\ calls[i].ret.kind = "raise"

\* what the calls of one collection step returned, in call order
RECURSIVE ValuesOf(_, _)
ValuesOf(cs, ops) ==
    IF cs = <<>> THEN <<>>
    ELSE (IF Head(cs).op \in ops THEN Head(cs).ret.value ELSE <<>>)
         \o ValuesOf(Tail(cs), ops)

StepRecords(ops) == IF StepRaised(ops) THEN <<>> ELSE ValuesOf(calls, ops)

(* C3: whatever one collection step of main() does (records, nothing, an   *)
(* exception), the other step is run; all_news is what the steps that did  *)
(* not raise returned, and when it is not empty save_news_to_file is       *)
(* called, the file (when the write succeeds) holding the deduplicated,    *)
(* sorted all_news.                                                        *)
C3_SourcesIndependent ==
    mpc = "end" =>
        /\ \E i \in 1..Len(calls) : calls[i].op \in YahooOps
        /\ \E i \in 1..Len(calls) : calls[i].op \in NaverOps
        /\ all_news = StepRecords(YahooOps) \o StepRecords(NaverOps)
        /\ all_news # <<>> =>
             /\ saved.state # "none"
             /\ saved.state = "written" =>
                  saved.report = sort_news_by_date(remove_duplicates(all_news))

\* the Yahoo step raised and the report was written from Naver's records
C3_Witness ==
    /\ mpc = "end"
    /\ StepRaised(YahooOps)
    /\ saved.state = "written"
    /\ saved.report # <<>>
    /\ saved.report = sort_news_by_date(remove_duplicates(StepRecords(NaverOps)))

(* C9 as stated: every crawl of one run of main() uses the same cutoff,    *)
(* taken from the clock at the start of main().                            *)
C9_SingleCutoff ==
    \A i \in 1..Len(calls) :
        calls[i].cutoff # <<>> => calls[i].cutoff[1] = calls[1].at - Window

(* C9 amended: every crawl of one run of main() takes its cutoff from the  *)
(* clock while it runs (not before its call, not after its return), minus  *)
(* the window; so a later crawl's cutoff is never before an earlier one's. *)
C9_OwnCutoff ==
    /\ \A i \in 1..Len(calls) :
         (calls[i].cutoff # <<>> /\ calls[i].ret.kind # "none") =>
             /\ calls[i].at - Window <= calls[i].cutoff[1]
             /\ calls[i].cutoff[1] <= calls[i].done - Window
    /\ \A i \in 1..Len(calls) : \A j \in (i + 1)..Len(calls) :
         (calls[i].cutoff # <<>> /\ calls[j].cutoff # <<>>) =>
             calls[i].cutoff[1] <= calls[j].cutoff[1]

\* two crawls of one run with different cutoffs
C9_Witness ==
    \E i \in 1..Len(calls) : \E j \in (i + 1)..Len(calls) :
        /\ calls[i].cutoff # <<>> /\ calls[j].cutoff # <<>>
        /\ calls[i].cutoff[1] < calls[j].cutoff[1]
        /\ calls[i].ret.kind = "return" /\ calls[j].ret.kind = "return"

-----------------------------------------------------------------------------
(* The merge functions *)

CasePairs == {<<"F", "f">>, <<"E", "e">>, <<"D", "d">>, <<"R", "r">>}

Fold(c) ==
    IF \E pr \in CasePairs : pr[1] = c
    THEN (CHOOSE pr \in CasePairs : pr[1] = c)[2]
    ELSE c

\* the title without the blanks at its ends
Trimmed(s) ==
    LET solid == {i \in 1..Len(s) : s[i] \notin {" ", "\t"}}
    IN  IF solid = {} THEN <<>>
        ELSE SubSeq(s, CHOOSE i \in solid : \A j \in solid : i <= j,
                       CHOOSE i \in solid : \A j \in solid : i >= j)

\* trimmed, then case-folded
NormTitle(s) == [k \in 1..Len(Trimmed(s)) |-> Fold(Trimmed(s)[k])]

RECURSIVE Ascending(_)
Ascending(S) ==
    IF S = {} THEN <<>>
    ELSE LET m == CHOOSE x \in S : \A y \in S : x <= y
         IN  <<m>> \o Ascending(S \ {m})

\* the positions of l that hold the first record of their normalised title
FirstSeen(l) ==
    {i \in 1..Len(l) :
        \A j \in 1..(i - 1) : NormTitle(l[j].title) # NormTitle(l[i].title)}

(* C5: the result of remove_duplicates holds no two records with the same  *)
(* normalised title, and it is the input restricted to the first record of *)
(* each normalised title, in input order.                                  *)
C5_FirstSeenWins ==
    mpc # "dedup" =>
        /\ \A i \in 1..Len(unique_news) : \A j \in (i + 1)..Len(unique_news) :
             NormTitle(unique_news[i].title) # NormTitle(unique_news[j].title)
        /\ LET keep == Ascending(FirstSeen(all_news))
           IN  unique_news = [k \in 1..Len(keep) |-> all_news[keep[k]]]

\* "Fed" first, then "fed " from another source with a later date: the
\* first one stays
C5_Witness ==
    /\ mpc # "dedup"
    /\ Len(all_news) = 3 /\ Len(unique_news) = 2
    /\ all_news[1].title = Fed /\ all_news[3].title = FedSp
    /\ all_news[1].source # all_news[3].source
    /\ all_news[1].date.t < all_news[3].date.t
    /\ unique_news[1] = all_news[1]

Timestamp(r) == r.date.t

(* C6: the result of sort_news_by_date is a permutation of its input,      *)
(* non-increasing by timestamp, and records with equal timestamps keep     *)
(* their input order.                                                      *)
C6_StableDescending ==
    mpc = "save" =>
        LET n == Len(unique_news)
        IN  /\ Len(sorted_news) = n
            /\ \E f \in [1..n -> 1..n] :
                 /\ \A i \in 1..n : \A j \in 1..n : i # j => f[i] # f[j]
                 /\ \A i \in 1..n : sorted_news[i] = unique_news[f[i]]
                 /\ \A i \in 1..n : \A j \in (i + 1)..n :
                      /\ Timestamp(sorted_news[i]) >= Timestamp(sorted_news[j])
                      /\ Timestamp(sorted_news[i]) = Timestamp(sorted_news[j])
                           => f[i] < f[j]

\* three records, two of them with one timestamp, that the sort reordered
C6_Witness ==
    /\ mpc = "save"
    /\ Len(sorted_news) = 3
    /\ sorted_news # unique_news
    /\ \E i \in 1..2 : Timestamp(sorted_news[i]) = Timestamp(sorted_news[i + 1])
    /\ Timestamp(unique_news[1]) = Timestamp(unique_news[3])
    /\ Timestamp(unique_news[2]) > Timestamp(unique_news[1])

(* C7: remove_duplicates and sort_news_by_date leave their input lists as  *)
(* they were, and every record of the result is a record of the input.     *)
C7_InputsUntouched ==
    [][/\ all_news' = all_news
       /\ mpc = "sort" => unique_news' = unique_news
       /\ \A i \in 1..Len(unique_news') : \E j \in 1..Len(all_news) :
            unique_news'[i] = all_news[j]
       /\ \A i \in 1..Len(sorted_news') : \E j \in 1..Len(all_news) :
            sorted_news'[i] = all_news[j]]_vars

\* both steps ran, the first dropped a record and the second reordered
C7_Witness ==
    /\ mpc = "save"
    /\ unique_news # all_news
    /\ sorted_news # unique_news

-----------------------------------------------------------------------------
C12_NonEmptyTitle ==
    \A i \in 1..Len(news_list) : news_list[i].title # <<>>

(* C13 as stated: in every crawl that fetches article pages, an item whose *)
(* page could not be fetched is still emitted, with an empty body.         *)
C13_BodyNeverRemoves ==
    \A k \in 1..Len(trace) :
        (trace[k].e = "detail" /\ ~trace[k].ok) =>
            /\ k < Len(trace)
            /\ trace[k + 1].e = "append"
            /\ trace[k + 1].rec.content = ""

(* C13 amended: a failed article request never raises and never ends the   *)
(* crawl.  In get_finance_news the item is emitted all the same, with an   *)
(* empty body; in get_stock_news the item is passed over and the crawl     *)
(* goes on with the next row.                                              *)
C13_BodyOrSkip ==
    /\ Paginated => ret.kind # "raise"
    /\ \A k \in 1..Len(trace) :
        (trace[k].e = "detail" /\ ~trace[k].ok) =>
            IF op = "get_finance_news"
            THEN /\ k < Len(trace)
                 /\ trace[k + 1].e = "append"
                 /\ trace[k + 1].rec.content = ""
            ELSE /\ op = "get_stock_news"
                 /\ k = Len(trace) => (pc = "items" /\ ret.kind = "none")
                 /\ k < Len(trace) => trace[k + 1].e \in {"skip", "detail", "sleep"}

\* a finance crawl that emitted a row without body after its article
\* request failed, and then emitted the next row
C13_Witness ==
    /\ op = "get_finance_news"
    /\ Len(news_list) = 2
    /\ news_list[1].content = "" /\ news_list[2].content = "text"
    /\ \E k \in 1..Len(trace) :
         /\ trace[k] = EvDetail(FALSE)
         /\ trace[k + 1] = EvAppend(news_list[1])

(* C14: when no source returned a record, or when the report could not be  *)
(* saved, no report is written and the pipeline does not go on to its      *)
(* second step.                                                            *)
C14_TerminalFailure ==
    (mpc \in {"end", "step2"} /\ (all_news = <<>> \/ saved.state = "failed")) =>
        /\ saved.state # "written"
        /\ mpc # "step2"

(* C15: two pubDates that denote the same instant with different UTC       *)
(* offsets are normalised to the same timestamp, and an item is kept       *)
(* exactly when the instant it denotes is not before the cutoff.           *)
C15_OneReferenceClock ==
    \A k \in 1..Len(trace) : \A j \in 1..Len(trace) :
        (/\ trace[k].e = "date" /\ trace[j].e = "date"
         /\ trace[k].raw # <<>> /\ trace[j].raw # <<>>
         /\ trace[k].raw[1].fmt = RFC822 /\ trace[j].raw[1].fmt = RFC822
         /\ Instant(trace[k].raw[1]) = Instant(trace[j].raw[1]))
        => /\ trace[k].t = trace[j].t
           /\ EmittedWith(k, Strftime(trace[k].t))
                <=> Instant(trace[k].raw[1]) >= cutoff_time[1]

\* the entries of the log that stand for an item that could not be read
Unreadable(ev) == ev.e \in {"skip", "nodate"}

IsItem(ev) == ev.e \in {"date", "nodate"}

(* C16: an item that cannot be read (no link, no href, a header row, an    *)
(* unreadable date) is passed over and nothing else: no exception leaves   *)
(* the call, the records appended before it stay in the list and in the    *)
(* result, and the loop goes on with the next item.                        *)
C16_SkipOnlyThatItem ==
    /\ (Paginated \/ op = "search_news_api") => ret.kind # "raise"
    /\ \A k \in 1..Len(trace) :
         Unreadable(trace[k]) =>
            LET before == RecsOf(SubSeq(trace, 1, k - 1))
            IN  /\ Len(news_list) >= Len(before)
                /\ SubSeq(news_list, 1, Len(before)) = before
                /\ ret.kind = "return" => ret.value = news_list
                /\ (Paginated /\ k = Len(trace)) =>
                       (pc = "items" /\ ret.kind = "none" /\ page <= max_pages)
    /\ (op = "search_news_api" /\ pc = "done" /\ trace # <<>> /\ trace[1].ok) =>
         Len(SelectSeq(trace, IsItem)) = served

\* a stock crawl that passed over a row without link, appended the next
\* row and returned it
C16_Witness ==
    /\ op = "get_stock_news" /\ pc = "done"
    /\ Len(ret.value) = 1
    /\ \E k \in 1..Len(trace) : \E j \in (k + 1)..Len(trace) :
         trace[k] = EvSkip /\ trace[j] = EvAppend(ret.value[1])

IsList(ev)   == ev.e = "list"
IsDetail(ev) == ev.e = "detail"

InCall == pc \in {"page", "items", "request"}

(* C17: every call that has started comes to its end; a paginated crawl    *)
(* issues at most max_pages listing requests and at most one article       *)
(* request per listed row, and after a failed article request the crawl    *)
(* is still in its item loop.                                              *)
C17_Terminates ==
    /\ [](Paginated =>
            /\ Len(SelectSeq(trace, IsList)) <= max_pages
            /\ Len(SelectSeq(trace, IsDetail)) <= served
            /\ (trace # <<>> /\ trace[Len(trace)] = EvDetail(FALSE)) => pc = "items")
    /\ InCall ~> (pc = "done")

\* a finance crawl that is over after max_pages listing requests, one of
\* its article requests having failed
C17_Witness ==
    /\ op = "get_finance_news" /\ pc = "done"
    /\ Len(SelectSeq(trace, IsList)) = max_pages
    /\ \E k \in 1..Len(trace) : trace[k] = EvDetail(FALSE)
    /\ Len(SelectSeq(trace, IsDetail)) = served

IsApi(ev) == ev.e = "api"

(* C18: search_news_api issues one request when both credentials are set   *)
(* and none (returning the empty list) when they are not, never a listing  *)
(* or article request, and returns at most min(max_results, 100) records.  *)
C18_OneRequestCapped ==
    (op = "search_news_api" /\ pc = "done") =>
        /\ creds => Len(SelectSeq(trace, IsApi)) = 1
        /\ ~creds => (trace = <<>> /\ ret = Returned(<<>>))
        /\ SelectSeq(trace, IsList) = <<>> /\ SelectSeq(trace, IsDetail) = <<>>
        /\ ret.kind = "return"
        /\ Len(ret.value) <= Display(max_pages)

\* the report is newest first, without two records of one normalised
\* title and without a record older than the window
CleanReport(report) ==
    /\ \A i \in 1..Len(report) : \A j \in (i + 1)..Len(report) :
         /\ Timestamp(report[i]) >= Timestamp(report[j])
         /\ NormTitle(report[i].title) # NormTitle(report[j].title)
    /\ \A i \in 1..Len(report) : Timestamp(report[i]) >= now - Window

\* both items that carry the shared title are recent
SharedPairRecent ==
    \A p \in 1..Len(items) :
        NormTitle(items[p].title) = NormTitle(Fed) =>
            items[p].pubDate[1].t >= now - Window

Emitted(k) ==
    \E j \in (k + 1)..Len(trace) :
        /\ trace[j].e = "append"
        /\ \A m \in (k + 1)..(j - 1) : trace[m].e \notin {"date", "nodate", "skip"}

\* the record it was appended as
EmittedRec(k) ==
    trace[CHOOSE j \in (k + 1)..Len(trace) :
            /\ trace[j].e = "append"
            /\ \A m \in (k + 1)..(j - 1) : trace[m].e \notin {"date", "nodate", "skip"}].rec

\* the date at position k of the log is the current time, taken because
\* the date element was missing or unreadable
FellBack(k) ==
    trace[k].e = "date" /\ MalformedDate(op, trace[k].raw) /\ Emitted(k)

\* the date at position k of the log was read from the date element
Parsed(k) ==
    trace[k].e = "date" /\ ~MalformedDate(op, trace[k].raw) /\ Emitted(k)

(* C20 as stated: a record whose date is the fall-back to the current time *)
(* is never identical to a record whose date was read from the page.       *)
C20_FallbackMarked ==
    Paginated =>
        \A k \in 1..Len(trace) : \A j \in 1..Len(trace) :
            (FellBack(k) /\ Parsed(j)) => EmittedRec(k) # EmittedRec(j)

(* C20 amended: a record has the fields date, title, content, source and   *)
(* url and no other, its date being the canonical text of the timestamp    *)
(* whether that was read or is the fall-back; two items that agree on      *)
(* these five values give identical records.                               *)
C20_NoSideValue ==
    Paginated =>
        \A k \in 1..Len(trace) :
            (FellBack(k) \/ Parsed(k)) =>
                /\ DOMAIN EmittedRec(k) = {"date", "title", "content", "source", "url"}
                /\ EmittedRec(k).date = Strftime(trace[k].t)
                /\ \A j \in 1..Len(trace) :
                     (/\ FellBack(j) \/ Parsed(j)
                      /\ trace[j].t = trace[k].t
                      /\ EmittedRec(j).title = EmittedRec(k).title
                      /\ EmittedRec(j).content = EmittedRec(k).content
                      /\ EmittedRec(j).source = EmittedRec(k).source
                      /\ EmittedRec(j).url = EmittedRec(k).url)
                     => EmittedRec(j) = EmittedRec(k)

\* a finance crawl at midnight: a row with an unreadable marker and a row
\* with today's marker were appended as the same record
C20_Witness ==
    /\ op = "get_finance_news"
    /\ \E k \in 1..Len(trace) : \E j \in 1..Len(trace) :
         /\ FellBack(k) /\ Parsed(j)
         /\ trace[k].raw = <<BadText>>
         /\ EmittedRec(k) = EmittedRec(j)

-----------------------------------------------------------------------------
(* C21 *)

\* the date of a record reads back with '%Y-%m-%d %H:%M'
Canonical(rec) == Strptime(rec.date, CANON) # <<>>

\* newest first
Descending(l) ==
    \A i \in 1..Len(l) : \A j \in 1..Len(l) :
        i < j => Timestamp(l[i]) >= Timestamp(l[j])

\* C21: every record a crawler has collected or returned, and every record
\* main() has gathered, carries a date in the form '%Y-%m-%d %H:%M' that
\* parses back to a timestamp; so sort_news_by_date never leaves through
\* its except branch: what it returns is the stable descending sort of its
\* input, and the report that is written is ordered newest first.
C21_AlwaysSorted ==
    /\ \A i \in 1..Len(news_list) : Canonical(news_list[i])
    /\ ret.kind = "return" => \A i \in 1..Len(ret.value) : Canonical(ret.value[i])
    /\ \A i \in 1..Len(all_news) : Canonical(all_news[i])
    /\ mpc \in {"save", "end", "step2"} =>
          /\ sorted_news = SortedDesc(unique_news, <<>>)
          /\ Descending(sorted_news)
    /\ saved.state = "written" => Descending(saved.report)

\* a report of a listing record and a search record, written in another
\* order than the one the records were collected in
C21_Witness ==
    /\ saved.state = "written"
    /\ Len(saved.report) >= 2
    /\ saved.report # unique_news
    /\ Len(ValuesOf(calls, {"get_finance_news"})) = 1
    /\ Len(ValuesOf(calls, {"search_news_api"})) >= 1
    /\ Len(unique_news) = 2

-----------------------------------------------------------------------------
(* C22 *)

\* the listing row dated at position k of the log had no marker that
\* get_finance_news can read
NoMarker(k) ==
    trace[k].e = "date" /\ MalformedDate("get_finance_news", trace[k].raw)

\* the log is the one of the get_finance_news call main() made, and no
\* later call has replaced it
FinanceLogKept ==
    /\ calls # <<>>
    /\ calls[Len(calls)].op = "get_finance_news"
    /\ calls[Len(calls)].ret.kind = "return"

\* C22: in a listing crawl an item whose date marker cannot be parsed is
\* stamped with the current time, does not end the crawl (its date is not
\* before the cutoff, its article page is requested and it is appended),
\* and in the sorted report its record stands before every record whose
\* timestamp is earlier than the time the crawl was started.
C22_FallbackSortsAsNow ==
    /\ op = "get_finance_news" =>
          \A k \in 1..Len(trace) :
              NoMarker(k) =>
                  /\ trace[k].t = trace[k].at
                  /\ ~OlderThanCutoff(trace[k].t, cutoff_time[1])
                  /\ k < Len(trace)
                  /\ trace[k + 1].e = "detail"
                  /\ EmittedWith(k, Strftime(trace[k].at))
    /\ (saved.state = "written" /\ FinanceLogKept) =>
          \A k \in 1..Len(trace) :
              NoMarker(k) =>
                  \A i \in 1..Len(saved.report) : \A j \in 1..Len(saved.report) :
                      (/\ saved.report[i] = EmittedRec(k)
                       /\ Timestamp(saved.report[j]) < calls[Len(calls)].at)
                      => i < j

\* a row without a readable marker came after a row of an earlier day, and
\* stands before it in the report
C22_Witness ==
    /\ saved.state = "written" /\ FinanceLogKept
    /\ Len(saved.report) = 2 /\ Len(unique_news) = 2
    /\ \E k \in 1..Len(trace) :
         /\ NoMarker(k)
         /\ trace[k].raw = <<BadText>>
         /\ saved.report[1] = EmittedRec(k)
         /\ unique_news[2] = EmittedRec(k)
    /\ Timestamp(saved.report[2]) < calls[Len(calls)].at

-----------------------------------------------------------------------------
(* C23 *)

\* the place of a call in main(): collect_yahoo_news (market feed, then
\* the tickers) comes before collect_naver_news (finance listing, then the
\* search queries)
Rank(o) ==
    CASE o = "get_market_news"     -> 1
      [] o = "get_news_for_ticker" -> 2
      [] o = "get_finance_news"    -> 3
      [] o = "search_news_api"     -> 4
      [] OTHER                     -> 0

\* how many of the first i calls were search_news_api calls
ApiCallsUpTo(i) == Cardinality({n \in 1..i : calls[n].op = "search_news_api"})

\* both collection steps of main() are over
Collected == mpc \in {"process", "dedup", "sort", "save", "end", "step2"}

\* C23: main() calls the sources in a fixed order (Yahoo market feed, Yahoo
\* tickers, Naver finance listing, Naver search queries in listed order)
\* and all_news is what they returned, in that order; duplicates are
\* removed before the sort, so the report holds, for each normalised
\* title, exactly the record that comes first in all_news, that is the one
\* of the earliest source, whatever the dates of the later ones.
C23_EarliestSourceWins ==
    /\ \A i \in 1..Len(calls) : \A j \in 1..Len(calls) :
          i < j =>
             /\ Rank(calls[i].op) <= Rank(calls[j].op)
             /\ calls[i].op \in {"get_market_news", "get_finance_news"}
                   => calls[i].op # calls[j].op
    /\ \A i \in 1..Len(calls) :
          (calls[i].op = "search_news_api" /\ calls[i].ret.kind = "return") =>
              /\ ApiCallsUpTo(i) <= Len(SearchQueries)
              /\ \A n \in 1..Len(calls[i].ret.value) :
                    calls[i].ret.value[n].source
                        = <<NAVER_API, SearchQueries[ApiCallsUpTo(i)]>>
    /\ Collected => all_news = StepRecords(YahooOps) \o StepRecords(NaverOps)
    /\ saved.state = "written" =>
          /\ \A n \in 1..Len(saved.report) :
                \E m \in FirstSeen(all_news) : saved.report[n] = all_news[m]
          /\ \A m \in FirstSeen(all_news) :
                \E n \in 1..Len(saved.report) : saved.report[n] = all_news[m]
          /\ Len(saved.report) = Cardinality(FirstSeen(all_news))

\* the finance listing and a later search query gave the same title, the
\* search result being the newer one: the report holds the listing's
\* record and not the search result
C23_Witness ==
    /\ saved.state = "written"
    /\ \E i \in 1..Len(all_news) : \E j \in 1..Len(all_news) :
         /\ i <= Len(ValuesOf(calls, {"get_finance_news"}))
         /\ j > Len(ValuesOf(calls, {"get_finance_news"}))
         /\ all_news[j].source = <<NAVER_API, SearchQueries[2]>>
         /\ NormTitle(all_news[i].title) = NormTitle(all_news[j].title)
         /\ Timestamp(all_news[j]) > Timestamp(all_news[i])
         /\ \E n \in 1..Len(saved.report) : saved.report[n] = all_news[i]
         /\ \A n \in 1..Len(saved.report) : saved.report[n] # all_news[j]

-----------------------------------------------------------------------------
(* C24 *)

\* the listing request at position k of the log was answered with a page
\* without any item: the item loop had nothing to do
EmptyPage(k) ==
    /\ trace[k].e = "list" /\ trace[k].ok
    /\ IF k = Len(trace) THEN items = <<>> ELSE trace[k + 1].e = "sleep"

\* C24: in a paginated crawl a listing page that yields no items ends the
\* crawl: no request for a later page follows it, and once the page has
\* been dealt with the call has returned the records accumulated so far.
C24_EmptyPageEnds ==
    Paginated =>
        \A k \in 1..Len(trace) :
            EmptyPage(k) =>
                /\ \A j \in (k + 1)..Len(trace) : trace[j].e # "list"
                /\ k < Len(trace) => (pc = "done" /\ ret = Returned(news_list))

-----------------------------------------------------------------------------
(* C25 *)

\* the crawls that read one item list: the two Yahoo feeds and the search
\* API
FeedOps == YahooOps \cup {"search_news_api"}

\* C25: in the feed-based and search-API crawls an item older than the
\* cutoff is passed over on its own: the call returns a list, which holds
\* exactly the items whose date was parsed and is not before the cutoff, in
\* feed order, a recent item that follows an old one included.
C25_StaleSkippedOnly ==
    (op \in FeedOps /\ pc = "done") =>
        /\ ret.kind = "return"
        /\ ret.value = RecsOf(trace)
        /\ \A k \in 1..Len(trace) :
              trace[k].e = "date" =>
                  IF trace[k].t < cutoff_time[1]
                  THEN k = Len(trace) \/ trace[k + 1].e # "append"
                  ELSE /\ k < Len(trace)
                       /\ trace[k + 1].e = "append"
                       /\ trace[k + 1].rec.date = Strftime(trace[k].t)
        /\ \A k \in 1..Len(trace) :
              trace[k].e = "append" => (k > 1 /\ trace[k - 1].e = "date")

-----------------------------------------------------------------------------
(* get_finance_news under more clocks: new year's midnight, the midnight   *)
(* that opens the second day, and the instant after it.                     *)

MarkerStartTimes == {YearLen, YearLen + DayLen, YearLen + DayLen + 1}

InitMarker ==
    /\ now \in MarkerStartTimes
    /\ ticks = 0
    /\ served = 0
    /\ outage \in BOOLEAN
    /\ creds \in BOOLEAN
    /\ op = "none" /\ pc = "idle"
    /\ page = 0 /\ max_pages = 0
    /\ items = <<>> /\ news_list = <<>>
    /\ cutoff_time = <<>>
    /\ ret = NoOutcome
    /\ trace = <<>>
    /\ mpc = "off"
    /\ local_news = <<>> /\ all_news = <<>>
    /\ unique_news = <<>> /\ sorted_news = <<>>
    /\ saved = NotSaved
    /\ idx = 0
    /\ calls = <<>>

NextMarker == CallFinance \/ FinanceFetchPage \/ FinanceItem \/ FinanceEndPage

SpecMarker == InitMarker /\ [][NextMarker]_vars

-----------------------------------------------------------------------------
(* C26 *)

\* the row dated at position k of the log stands under the marker of day d
UnderDay(k, d) == trace[k].e = "date" /\ trace[k].raw = <<DateText(MD, d)>>

\* the day of the year the clock showed when the row was read
Today(k) == (trace[k].at % YearLen) \div DayLen

\* the row at position k ended the call
StopsCrawl(k) == k = Len(trace) /\ pc = "done" /\ ret = Returned(news_list)

\* the days a listing marker can name
MarkerDays == 0..(DaysPerYear - 1)

====
